---- MODULE Spec2Model ----
(***************************************************************************)
(* Model of src/minipython.py: the TypingTester session (start_time,       *)
(* end_time, running, sample), the input box it reads, the stat labels and *)
(* the dialogs it shows.  Every callback of the program (on_key_press,     *)
(* finish, reset, new_text) is one action; the clock only moves between    *)
(* callbacks (single-threaded Tk event loop).                              *)
(*                                                                         *)
(* Scaling: the six passages of SAMPLE_TEXTS (44..70 characters) are       *)
(* represented by passages of 2 and 3 characters over a two-letter         *)
(* alphabet, the input box holds at most MaxLen characters and the clock   *)
(* (time.time(), seconds) runs over 1..MaxClock.                           *)
(***************************************************************************)
EXTENDS Integers, Sequences, FiniteSets, TLC

VARIABLES start_time, end_time, running, sample, input_entry, labels,
          now, popup, fin, ev, pre, fresh

vars == <<start_time, end_time, running, sample, input_entry, labels,
          now, popup, fin, ev, pre, fresh>>

\* ---- bounds ------------------------------------------------------------
MaxLen == 4
MaxWpmClock == 7
MaxClock == 3

\* ---- constants of the program ------------------------------------------
\* Python's None for start_time and end_time; time.time() is never negative.
None == -1
\* fin holds the locals of the finish that produced a result in the last
\* callback: <<>> when it produced none, <<r>> otherwise.
NoResult == <<>>
NL == "\n"
Chars == {"a", "b"}
SAMPLE_TEXTS == { <<"a", "b">>, <<"b", "a", "a">> }

\* Keys the input box can receive.  char is event.char as Tk delivers it:
\* the character for a printable key, "\r" for Return, the one-character
\* backspace control code (written "\\b" here) for BackSpace
\* and the empty string for a pure modifier key.
Keys == [name : {"char"}, char : Chars]
        \cup { [name |-> "Return", char |-> "\r"],
               [name |-> "BackSpace", char |-> "\\b"],
               [name |-> "Shift", char |-> ""] }

\* ---- pure helpers -------------------------------------------------------
RECURSIVE GCD(_, _)
GCD(a, b) == IF b = 0 THEN a ELSE GCD(b, a % b)

\* A non-negative rational in lowest terms (the value of a Python float
\* expression over the integers of the model).
Rat(n, d) == IF n = 0 THEN <<0, 1>> ELSE <<n \div GCD(n, d), d \div GCD(n, d)>>

\* Python truthiness of start_time: None and 0 are falsy.
Truthy(t) == t # None /\ t # 0

\* str.rstrip('\n')
RECURSIVE rstrip(_)
rstrip(t) == IF t # <<>> /\ t[Len(t)] = NL
             THEN rstrip(SubSeq(t, 1, Len(t) - 1))
             ELSE t

\* input_entry.get('1.0', tk.END): the contents followed by the newline the
\* Text widget always appends.
WidgetGet(t) == t \o <<NL>>

get_typed_text(s) == rstrip(WidgetGet(s.input_entry))

RECURSIVE CountLoopMutStopsAtMismatch(_, _, _, _)
CountLoopMutStopsAtMismatch(typed, smp, i, count) ==
    IF i > Len(typed) THEN count
    ELSE IF i <= Len(smp) /\ typed[i] = smp[i]
         THEN CountLoopMutStopsAtMismatch(typed, smp, i + 1, count + 1)
         ELSE count

RECURSIVE CountLoopMutCountsBeyond(_, _, _, _)
CountLoopMutCountsBeyond(typed, smp, i, count) ==
    IF i > Len(typed) THEN count
    ELSE CountLoopMutCountsBeyond(typed, smp, i + 1,
                   IF i > Len(smp) \/ typed[i] = smp[i] THEN count + 1 ELSE count)

\* lines 135-138, the loop of finish from position i on (positions are
\* 1-based here), with the count so far:
\*     for i, ch in enumerate(typed):
\*         if i < len(self.sample) and ch == self.sample[i]: correct_chars += 1
RECURSIVE CountLoop(_, _, _, _)
CountLoop(typed, smp, i, count) ==
    IF i > Len(typed) THEN count
    ELSE CountLoop(typed, smp, i + 1,
                   IF i <= Len(smp) /\ typed[i] = smp[i] THEN count + 1 ELSE count)

correct_chars(typed, smp) == CountLoop(typed, smp, 1, 0)

\* f"{x:.2f}" of the non-negative rational r: <<whole part, hundredths>>,
\* rounded to the nearest hundredth, a tie going to the even digit.
Fmt2(r) ==
    LET whole == r[1] \div r[2]
        scaled == (r[1] % r[2]) * 100
        h == scaled \div r[2]
        rest == scaled % r[2]
        up == 2 * rest > r[2] \/ (2 * rest = r[2] /\ h % 2 = 1)
        hh == IF up THEN h + 1 ELSE h
    IN IF hh = 100 THEN <<whole + 1, 0>> ELSE <<whole, hh>>

\* "Time: 0.00 s", "WPM: 0.00", "Accuracy: 0.00%"
ZeroLabels == [time |-> <<0, 0>>, wpm |-> <<0, 0>>, acc |-> <<0, 0>>]

\* The program state as one record, so that a callback can call another.
Cur == [start_time |-> start_time, end_time |-> end_time, running |-> running,
        sample |-> sample, input_entry |-> input_entry, labels |-> labels,
        now |-> now, popup |-> popup, fin |-> fin]

\* ---- finish -------------------------------------------------------------
\* line 126: if not self.running and not self.start_time
NotStartedMutNoNot(s) == ~s.running /\ Truthy(s.start_time)
NotStartedMutOr(s) == ~s.running \/ ~Truthy(s.start_time)
NotStarted(s) == ~s.running /\ ~Truthy(s.start_time)

\* line 131: elapsed = self.end_time - self.start_time if self.start_time else 0.0
Elapsed(s, e) == IF Truthy(s.start_time) THEN e - s.start_time ELSE 0

\* lines 143-144: minutes = elapsed / 60 if elapsed > 0 else 1e-9
\*                wpm = (correct_chars / 5) / minutes
WpmMutNoFive(c, elapsed) == IF elapsed > 0 THEN Rat(60 * c, elapsed)
                           ELSE Rat(c * 200000000, 1)
Wpm(c, elapsed) == IF elapsed > 0 THEN Rat(12 * c, elapsed)
                   ELSE Rat(c * 200000000, 1)

\* line 146
AccuracyMutNoPercent(c, total) == IF total > 0 THEN Rat(c, total) ELSE <<0, 1>>
AccuracyMutEmptyIsPerfect(c, total) ==
    IF total > 0 THEN Rat(c * 100, total) ELSE <<100, 1>>
Accuracy(c, total) == IF total > 0 THEN Rat(c * 100, total) ELSE <<0, 1>>

Result(s, e) ==
    LET typed == get_typed_text(s)
        c == correct_chars(typed, s.sample)
        el == Elapsed(s, e)
    IN [elapsed |-> el, typed |-> typed, correct_chars |-> c,
        total_typed |-> Len(typed), wpm |-> Wpm(c, el),
        accuracy |-> Accuracy(c, Len(typed))]

\* lines 148-150: the three labels after a finish
Shown(r) == [time |-> Fmt2(<<r.elapsed, 1>>), wpm |-> Fmt2(r.wpm),
             acc |-> Fmt2(r.accuracy)]

FinishBodyMutRestartsTimer(s) ==
    LET r == Result(s, s.now)
    IN [s EXCEPT !.end_time = s.now, !.running = FALSE, !.start_time = s.now,
                 !.labels = Shown(r),
                 !.fin = <<r>>, !.popup = "Results"]
FinishBody(s) ==
    LET r == Result(s, s.now)
    IN [s EXCEPT !.end_time = s.now, !.running = FALSE,
                 !.labels = Shown(r),
                 !.fin = <<r>>, !.popup = "Results"]

finish(s) == IF NotStarted(s) THEN [s EXCEPT !.popup = "Info"]
             ELSE FinishBody(s)

\* ---- reset / new_text ---------------------------------------------------
resetMutKeepsStart(s, clear_text) ==
    [s EXCEPT !.end_time = None, !.running = FALSE,
              !.input_entry = IF clear_text THEN <<>> ELSE @,
              !.labels = ZeroLabels]
resetMutKeepsInput(s, clear_text) ==
    [s EXCEPT !.start_time = None, !.end_time = None, !.running = FALSE,
              !.labels = ZeroLabels]
resetMutClearsSample(s, clear_text) ==
    [s EXCEPT !.start_time = None, !.end_time = None, !.running = FALSE,
              !.sample = <<>>,
              !.input_entry = IF clear_text THEN <<>> ELSE @,
              !.labels = ZeroLabels]
reset(s, clear_text) ==
    [s EXCEPT !.start_time = None, !.end_time = None, !.running = FALSE,
              !.input_entry = IF clear_text THEN <<>> ELSE @,
              !.labels = ZeroLabels]

\* choice is the passage random.choice returns
new_textMutClearsInput(s, choice) == reset([s EXCEPT !.sample = choice], TRUE)
new_text(s, choice) == reset([s EXCEPT !.sample = choice], FALSE)

\* ---- on_key_press -------------------------------------------------------
\* lines 106-114: the branch taken while the session is not running
StartTimer(s) == [s EXCEPT !.start_time = s.now, !.running = TRUE,
                           !.labels = ZeroLabels]

\* line 118
AutoFinishDueMutGreater(s) == Len(get_typed_text(s)) > Len(s.sample)
AutoFinishDue(s) == Len(get_typed_text(s)) >= Len(s.sample)

\* lines 116-120
AutoFinish(s) == IF AutoFinishDue(s) THEN finish(s) ELSE s

on_key_pressMutNoCharCheck(s, event) ==
    IF ~s.running THEN AutoFinish(StartTimer(s)) ELSE AutoFinish(s)
on_key_press(s, event) ==
    IF ~s.running
    THEN IF Len(event.char) = 0 THEN s ELSE AutoFinish(StartTimer(s))
    ELSE AutoFinish(s)

\* What the Text widget's own key binding does with the key; it runs after
\* the binding of line 53, so on_key_press reads the box without this key.
ClassBinding(t, event) ==
    CASE event.name = "char" -> Append(t, event.char)
      [] event.name = "Return" -> Append(t, NL)
      [] event.name = "BackSpace" -> IF t = <<>> THEN t ELSE SubSeq(t, 1, Len(t) - 1)
      [] OTHER -> t

\* ---- state machine ------------------------------------------------------
\* Writes the record a callback returns back to the variables.  popup and
\* fin describe the callback that just ran: each callback starts from
\* Quiet(Cur).
Quiet(s) == [s EXCEPT !.popup = "none", !.fin = NoResult]

Becomes(s) ==
    /\ start_time' = s.start_time
    /\ end_time' = s.end_time
    /\ running' = s.running
    /\ sample' = s.sample
    /\ input_entry' = s.input_entry
    /\ labels' = s.labels
    /\ now' = s.now
    /\ popup' = s.popup
    /\ fin' = s.fin

\* After __init__ (lines 32-35, 71-78, 81): new_text has chosen a passage.
Init ==
    /\ start_time = None
    /\ end_time = None
    /\ running = FALSE
    /\ sample \in SAMPLE_TEXTS
    /\ input_entry = <<>>
    /\ labels = ZeroLabels
    /\ now = 1
    /\ popup = "none"
    /\ fin = NoResult
    /\ ev = [op |-> "init"]
    /\ pre = [start_time |-> None, end_time |-> None, running |-> FALSE,
              sample |-> sample, input_entry |-> <<>>, labels |-> ZeroLabels,
              now |-> 1, popup |-> "none", fin |-> NoResult]
    /\ fresh = 0

\* time.time() between two callbacks
Tick ==
    /\ now < MaxClock
    /\ Becomes([Quiet(Cur) EXCEPT !.now = now + 1])
    /\ ev' = [op |-> "tick"]
    /\ pre' = Cur
    /\ UNCHANGED fresh

KeyPress ==
    \E k \in Keys :
        /\ k.name \in {"char", "Return"} => Len(input_entry) < MaxLen
        /\ LET s == on_key_press(Quiet(Cur), k)
           IN Becomes([s EXCEPT !.input_entry = ClassBinding(s.input_entry, k)])
        /\ ev' = [op |-> "key", key |-> k]
        /\ pre' = Cur
        /\ fresh' = IF k.name = "char" /\ fresh >= 0 THEN fresh + 1 ELSE -1

Finish ==
    /\ Becomes(finish(Quiet(Cur)))
    /\ ev' = [op |-> "finish"]
    /\ pre' = Cur
    /\ fresh' = -1

Reset ==
    /\ Becomes(reset(Quiet(Cur), TRUE))
    /\ ev' = [op |-> "reset"]
    /\ pre' = Cur
    /\ fresh' = 0

NewText ==
    \E choice \in SAMPLE_TEXTS :
        /\ Becomes(new_text(Quiet(Cur), choice))
        /\ ev' = [op |-> "new_text"]
        /\ pre' = Cur
        /\ fresh' = IF fresh = 0 THEN 0 ELSE -1

Next == Tick \/ KeyPress \/ Finish \/ Reset \/ NewText

Spec == Init /\ [][Next]_vars

\* The same program watched over a longer stretch of the clock, for the
\* claims about elapsed times of several seconds.
TickWpm ==
    /\ now < MaxWpmClock
    /\ Becomes([Quiet(Cur) EXCEPT !.now = now + 1])
    /\ ev' = [op |-> "tick"]
    /\ pre' = Cur
    /\ UNCHANGED fresh

NextWpm == TickWpm \/ KeyPress \/ Finish \/ Reset \/ NewText

SpecWpm == Init /\ [][NextWpm]_vars

\* ---- session states -----------------------------------------------------
StateOf(s) == IF s.running THEN "Running"
              ELSE IF s.start_time = None THEN "Idle" ELSE "Finalized"

Session(s) == [start_time |-> s.start_time, end_time |-> s.end_time,
               running |-> s.running, sample |-> s.sample,
               input_entry |-> s.input_entry]

IsKey == ev.op = "key"
IsFinish == ev.op = "finish"
VisibleKey == IsKey /\ Len(ev.key.char) > 0

Finalizes == fin # NoResult /\ popup = "Results" /\ ~running /\ end_time = now

\* ---- C1 -----------------------------------------------------------------
\* C1: a finish invoked while the session is Idle (running false, start_time
\* unset) takes the NotStarted branch: it shows the "start typing first"
\* dialog, produces no result and leaves start_time, end_time, running,
\* sample, the typed text and the labels as they were, so the session is
\* still Idle.
C1_FinishWhileIdleChangesNothing ==
    (IsFinish /\ StateOf(pre) = "Idle") =>
        /\ popup = "Info"
        /\ fin = NoResult
        /\ Session(Cur) = Session(pre)
        /\ labels = pre.labels
        /\ StateOf(Cur) = "Idle"

C1_Witness == IsFinish /\ StateOf(pre) = "Idle" /\ popup = "Info"
              /\ input_entry # <<>>

\* ---- C2 -----------------------------------------------------------------
\* C2: once start_time is set, no later on_key_press or finish of the same
\* session (no reset or new_text in between) changes its value.
C2_StartTimeAssignedOnce ==
    (ev.op \in {"key", "finish"} /\ pre.start_time # None) =>
        start_time = pre.start_time

\* ---- C3 -----------------------------------------------------------------
\* C3: in every reachable state, under a non-decreasing clock, if start_time
\* and end_time are both set then end_time >= start_time.
C3_EndNotBeforeStart ==
    (start_time # None /\ end_time # None) => end_time >= start_time

\* ---- C4 -----------------------------------------------------------------
\* C4: every event performs only a listed transition between Idle, Running
\* and Finalized: Idle->Running on a visible keystroke, Running->Finalized
\* on finish (manual, or auto-triggered by a keystroke), anything->Idle on
\* reset or new_text; otherwise the state is kept.  In particular a
\* keystroke never moves a Finalized session back to Running.
ListedTransition(from, e, to) ==
    \/ from = to /\ e.op \notin {"reset", "new_text"}
    \/ e.op = "key" /\ Len(e.key.char) > 0 /\ from = "Idle" /\ to = "Running"
    \/ e.op \in {"key", "finish"} /\ from = "Running" /\ to = "Finalized"
    \/ e.op \in {"reset", "new_text"} /\ to = "Idle"

C4_OnlyListedTransitions ==
    ev.op # "init" => ListedTransition(StateOf(pre), ev, StateOf(Cur))

\* ---- C5 -----------------------------------------------------------------
\* C5: a keystroke with a visible character received while running is false
\* only starts the session: when on_key_press returns, start_time is the
\* current time, running is true and the callback has not finalized the
\* session (end_time untouched, no result, no dialog), whatever text the
\* input box holds.
C5_VisibleKeyOnlyStarts ==
    (VisibleKey /\ ~pre.running) =>
        /\ start_time = now
        /\ running
        /\ end_time = pre.end_time
        /\ fin = NoResult
        /\ popup = "none"

\* ---- C6 -----------------------------------------------------------------
\* C6: in every reachable state, start_time is set if and only if running is
\* true or end_time is set (the session was finalized since the last
\* reset/new_text).
C6_StartSetIffRunningOrFinalized ==
    (start_time # None) <=> (running \/ end_time # None)

C6_Witness == ev.op = "key" /\ StateOf(pre) = "Finalized" /\ running
              /\ start_time # None /\ end_time # None

C8_NthCharacterAutoFinishes ==
    (IsKey /\ ev.key.name = "char" /\ fresh = Len(sample)) =>
        ~running /\ end_time # None /\ fin # NoResult

\* ---- C9 -----------------------------------------------------------------
\* C9: once a visible keystroke has started the session (start_time set, no
\* reset/new_text since), every finish call, on a Running or on a Finalized
\* session, produces a result and leaves running false; it never takes the
\* NotStarted branch.
C9_FinishAfterStartNeverFails ==
    (IsFinish /\ pre.start_time # None) =>
        /\ popup = "Results"
        /\ fin # NoResult
        /\ ~running

C9_Witness == IsFinish /\ StateOf(pre) = "Finalized" /\ fin # NoResult
              /\ popup = "Results"

\* ---- C10 ----------------------------------------------------------------
\* C10: finish on an already Finalized session recomputes the result from
\* the unchanged start_time, the typed text of that moment and the current
\* time: start_time is unchanged, end_time becomes the current time, running
\* stays false; a finish that follows a finalization with the same typed
\* text at the same clock value gives the same result and labels.
C10_FinishAgainRecomputes ==
    (IsFinish /\ StateOf(pre) = "Finalized") =>
        /\ start_time = pre.start_time
        /\ end_time = now
        /\ ~running
        /\ fin # NoResult
        /\ fin[1].typed = get_typed_text(pre)
        /\ fin[1].elapsed = now - pre.start_time
        /\ (pre.fin # NoResult /\ pre.fin[1].typed = fin[1].typed
              /\ pre.end_time = end_time)
           => (fin = pre.fin /\ labels = pre.labels)

C10_Witness == IsFinish /\ StateOf(pre) = "Finalized" /\ pre.fin # NoResult
               /\ fin = pre.fin /\ pre.end_time = end_time
               /\ input_entry # <<>>

\* ---- C11 ----------------------------------------------------------------
\* C11: a keystroke that produces no visible character (empty event.char)
\* while running is false changes nothing: start_time, end_time, running,
\* sample, the typed text and the shown stats are as before, and no
\* finalization is triggered (no result, no dialog), whatever the length of
\* the typed text.
C11_InvisibleKeyWhileStoppedIsNoOp ==
    (IsKey /\ ~VisibleKey /\ ~pre.running) =>
        /\ Session(Cur) = Session(pre)
        /\ labels = pre.labels
        /\ fin = NoResult
        /\ popup = "none"

C11_Witness == IsKey /\ ~VisibleKey /\ ~pre.running
               /\ StateOf(pre) = "Idle"
               /\ Len(get_typed_text(pre)) >= Len(pre.sample)

\* ---- C12 ----------------------------------------------------------------
\* C12: new_text, from any state, sets sample to a member of the pool, sets
\* running to false, clears start_time and end_time and leaves the text in
\* the input box unchanged.
C12_NewTextResetsButKeepsInput ==
    ev.op = "new_text" =>
        /\ sample \in SAMPLE_TEXTS
        /\ ~running
        /\ start_time = None
        /\ end_time = None
        /\ input_entry = pre.input_entry

C12_Witness == ev.op = "new_text" /\ StateOf(pre) = "Finalized"
               /\ input_entry # <<>> /\ sample # pre.sample

\* ---- C13 ----------------------------------------------------------------
\* C13: a manual reset, from any state, yields an Idle session with the same
\* sample: start_time and end_time cleared, running false, input box empty,
\* labels back to zero, sample unchanged.
C13_ResetYieldsIdleSameSample ==
    ev.op = "reset" =>
        /\ StateOf(Cur) = "Idle"
        /\ start_time = None
        /\ end_time = None
        /\ input_entry = <<>>
        /\ labels = ZeroLabels
        /\ sample = pre.sample

C13_Witness == ev.op = "reset" /\ StateOf(pre) = "Finalized"
               /\ pre.input_entry # <<>> /\ pre.labels # ZeroLabels
               /\ StateOf(Cur) = "Idle"

\* ---- C14 ----------------------------------------------------------------
\* C14: sample changes only through new_text: on_key_press, finish and reset
\* leave it unchanged in every state, and it is always a non-empty member of
\* SAMPLE_TEXTS.
C14_SampleChangesOnlyByNewText ==
    /\ ev.op \in {"key", "finish", "reset"} => sample = pre.sample
    /\ sample \in SAMPLE_TEXTS
    /\ sample # <<>>

C14_Witness == ev.op = "reset" /\ pre.running /\ sample = pre.sample
               /\ sample \in SAMPLE_TEXTS

\* ---- results of finish --------------------------------------------------
Produced == fin # NoResult

\* positions (1-based) at which typed text T and sample S agree
Matches(T, S) == { i \in 1..Len(T) : i <= Len(S) /\ T[i] = S[i] }

IsPrefix(T, S) == Len(T) <= Len(S) /\ T = SubSeq(S, 1, Len(T))

\* ---- C15 ----------------------------------------------------------------
\* C15: the correct_chars a finish computes for sample S and typed text T is
\* the number of positions i with i < len(T), i < len(S) and T[i] = S[i];
\* if T is a prefix of S of length k it is k, and characters typed beyond
\* len(S) never count (the count is that of T cut to len(S)).
C15_CorrectCharsIsPositionalCount ==
    Produced =>
        LET T == fin[1].typed
            S == pre.sample
            c == fin[1].correct_chars
        IN /\ T = get_typed_text(pre)
           /\ c = Cardinality(Matches(T, S))
           /\ IsPrefix(T, S) => c = Len(T)
           /\ Len(T) > Len(S) => c = Cardinality(Matches(SubSeq(T, 1, Len(S)), S))

C15_Witness == Produced /\ Len(fin[1].typed) > Len(pre.sample)
               /\ fin[1].typed[1] # pre.sample[1]
               /\ fin[1].correct_chars = Len(pre.sample) - 1

\* ---- C16 ----------------------------------------------------------------
\* C16: whenever finish produces a result and the typed text equals the
\* sample exactly, the accuracy is 100 (correct_chars = len(typed)) and is
\* shown as 100.00, for any elapsed time.
C16_ExactTextGivesFullAccuracy ==
    (Produced /\ fin[1].typed = pre.sample) =>
        /\ fin[1].correct_chars = fin[1].total_typed
        /\ fin[1].accuracy = <<100, 1>>
        /\ labels.acc = <<100, 0>>

C16_Witness == Produced /\ fin[1].typed = pre.sample /\ fin[1].elapsed > 0
               /\ labels.acc = <<100, 0>>

\* ---- C17 ----------------------------------------------------------------
\* C17: whenever finish produces a result while the typed text is empty, the
\* accuracy is 0 (shown as 0.00) and a result is produced all the same (no
\* division by zero), for any elapsed time.
C17_EmptyTextGivesZeroAccuracy ==
    /\ (Produced /\ fin[1].typed = <<>>) =>
          /\ fin[1].total_typed = 0
          /\ fin[1].accuracy = <<0, 1>>
          /\ labels.acc = <<0, 0>>
    /\ (IsFinish /\ pre.start_time # None /\ get_typed_text(pre) = <<>>) =>
          (Produced /\ fin[1].typed = <<>>)

C17_Witness == IsFinish /\ Produced /\ fin[1].typed = <<>>
               /\ pre.input_entry # <<>> /\ fin[1].elapsed > 0

\* ---- C18 ----------------------------------------------------------------
\* C18: the wpm of a finish is (correct_chars / 5) / (elapsed / 60), that is
\* wpm * elapsed = 12 * correct_chars, whenever elapsed > 0 (3 correct
\* characters in 6 s give 6, 2 in 3 s give 8); when elapsed is 0 a result is
\* still produced, with 1e-9 minutes in place of the elapsed time: wpm is 0
\* when correct_chars is 0 and the very large correct_chars * 2 * 10^8
\* otherwise.
C18_WpmFormula ==
    Produced =>
        LET r == fin[1]
        IN /\ r.elapsed >= 0
           /\ r.elapsed > 0 =>
                 r.wpm[1] * r.elapsed = 12 * r.correct_chars * r.wpm[2]
           /\ (r.elapsed = 6 /\ r.correct_chars = 3) =>
                 (r.wpm = <<6, 1>> /\ labels.wpm = <<6, 0>>)
           /\ (r.elapsed = 3 /\ r.correct_chars = 2) =>
                 (r.wpm = <<8, 1>> /\ labels.wpm = <<8, 0>>)
           /\ r.elapsed = 0 =>
                 r.wpm = IF r.correct_chars = 0 THEN <<0, 1>>
                         ELSE <<r.correct_chars * 200000000, 1>>

C18_Witness == Produced /\ fin[1].elapsed = 6 /\ fin[1].correct_chars = 3
               /\ labels.wpm = <<6, 0>>

\* ---- C19 ----------------------------------------------------------------
\* C19: for every result of finish, 0 <= correct_chars <= min(len(typed),
\* len(sample)), so the accuracy lies between 0 and 100 inclusive, also when
\* the typed text is longer than the sample.
C19_CorrectCharsAndAccuracyBounded ==
    Produced =>
        LET r == fin[1]
        IN /\ 0 <= r.correct_chars
           /\ r.correct_chars <= r.total_typed
           /\ r.correct_chars <= Len(pre.sample)
           /\ r.total_typed = Len(r.typed)
           /\ 0 <= r.accuracy[1]
           /\ r.accuracy[2] > 0
           /\ r.accuracy[1] <= 100 * r.accuracy[2]

C19_Witness == Produced /\ fin[1].total_typed > Len(pre.sample)
               /\ fin[1].correct_chars = Len(pre.sample)
               /\ fin[1].accuracy[1] < 100 * fin[1].accuracy[2]

====
